---- MODULE Spec2Model ----
(***************************************************************************)
(* A model of src/src/merkle_tree.ts: the persisted, fixed-depth binary    *)
(* Merkle tree (class MerkleTree) over a LevelUp key-value store.          *)
(*                                                                         *)
(* State: the store `db` (metadata record and node records), the fields of *)
(* the MerkleTree object the caller holds (`root`, `depth`, `cache`), and   *)
(* the outcome of the last call; two history variables record the failed   *)
(* commits and the last root written with success.                         *)
(*                                                                         *)
(* Digests are natural numbers.  A leaf value (a 64-byte buffer) is a      *)
(* natural number; 0 stands for the buffer of 64 zero bytes.               *)
(***************************************************************************)
EXTENDS Integers, Sequences, FiniteSets, TLC

VARIABLES
    db,       \* the LevelUp store: key -> value (a partial function)
    depth,    \* this.depth of the live tree object; 0 when there is no object
    root,     \* this.root
    cache,    \* this.cache: node key -> digest
    ret,      \* outcome of the last call: the value returned or the error thrown
    failures, \* history: number of store operations (batch commits, and reads
              \* in SpecFault) that failed so far
    committed, \* history: the root of the last write of the tree that succeeded
    calls     \* the calls in flight on the tree object, one per caller: where
              \* each is suspended (await) and the values of its locals

vars == <<db, depth, root, cache, ret, failures, committed, calls>>

-----------------------------------------------------------------------------
(* Bounds of the model *)

\* leaf indices passed to updateElement / updateElements / getHashPath: 0..MaxIndex
MaxIndex == 2
\* leaf values passed to the updates: 0..MaxValue (0 is the all-zero buffer)
MaxValue == 1
\* longest update list passed to updateElements
MaxUpdates == 2
\* getHashPath and the updates are called on trees of depth 1..MaxDepth
\* (MerkleTree.new is called with every depth 0..MAX_DEPTH + 1)
MaxDepth == 2
\* store operations (batch commits, reads) that fail in one behaviour
MaxFailures == 1
\* calls that are in flight together on one tree object
MaxCalls == 2
\* node records whose read fails during one call
MaxReadFaults == 1

-----------------------------------------------------------------------------
(* Program constants *)

MAX_DEPTH == 32

\* the tree name given to MerkleTree.new
Name == "t"

-----------------------------------------------------------------------------
(* The hasher (Sha256Hasher): deterministic, 32-byte digests.  Modelled as *)
(* two fixed arithmetic functions into 0..46336; Compress is not symmetric *)
(* in its arguments and depends on both.                                   *)

Hash(v) == (v * 7919 + 1031) % 46337

Compress(l, r) == ((l + 1) * (r + 5) + l) % 46337

\* Buffer.alloc(LEAF_BYTES): the leaf value of 64 zero bytes
ZeroLeaf == 0

-----------------------------------------------------------------------------
(* Keys, maps *)

EmptyMap == [k \in {} |-> 0]

\* Map.set / db.put on a partial function
MapSet(m, k, v) == (k :> v) @@ m

\* Buffer.from(name): the key of the metadata record
MetaKey == <<Name>>

\* `${this.name}/node/${height}/${index}`
NodeKey(index, height) == <<Name, "node", height, index>>

\* the 40-byte metadata record: root at 0..32, depth as uint32 LE at 32..36
MetaData(r, d) == <<r, d>>

MetaRoot(meta) == meta[1]

MetaDepth(meta) == meta[2]

-----------------------------------------------------------------------------
(* Private helpers of MerkleTree, as functions of the state they touch *)

\* getEmptyNodeHash that compresses the child with the empty leaf
RECURSIVE getEmptyNodeHash_LeafOnRight(_)
getEmptyNodeHash_LeafOnRight(height) ==
    IF height = 0
    THEN Hash(ZeroLeaf)
    ELSE Compress(getEmptyNodeHash_LeafOnRight(height - 1), Hash(ZeroLeaf))

RECURSIVE getEmptyNodeHash(_)
getEmptyNodeHash(height) ==
    IF height = 0
    THEN Hash(ZeroLeaf)
    ELSE LET childHash == getEmptyNodeHash(height - 1)
         IN  Compress(childHash, childHash)

\* getNode that does not read the store on a cache miss
getNode_NoStoreRead(c, s, index, height) ==
    LET key == NodeKey(index, height)
    IN  IF key \in DOMAIN c
        THEN [cache |-> c, value |-> c[key]]
        ELSE LET empty == getEmptyNodeHash(height)
             IN  [cache |-> MapSet(c, key, empty), value |-> empty]

\* getNode that returns the default of an absent node without caching it
getNode_DefaultNotCached(c, s, index, height) ==
    LET key == NodeKey(index, height)
    IN  IF key \in DOMAIN c
        THEN [cache |-> c, value |-> c[key]]
        ELSE IF key \in DOMAIN s
             THEN [cache |-> MapSet(c, key, s[key]), value |-> s[key]]
             ELSE [cache |-> c, value |-> getEmptyNodeHash(height)]

\* getNode(index, height) on cache c and store s: the value and the new cache
getNode(c, s, index, height) ==
    LET key == NodeKey(index, height)
    IN  IF key \in DOMAIN c
        THEN [cache |-> c, value |-> c[key]]
        ELSE IF key \in DOMAIN s
             THEN [cache |-> MapSet(c, key, s[key]), value |-> s[key]]
             ELSE LET empty == getEmptyNodeHash(height)
                  IN  [cache |-> MapSet(c, key, empty), value |-> empty]

\* updateNode that sets the cache entry and chains no put on the batch
updateNode_CacheOnly(c, b, index, height, value) ==
    [cache |-> MapSet(c, NodeKey(index, height), value), batch |-> b]

\* updateNode(index, height, value, batch): the new cache and the new batch
updateNode(c, b, index, height, value) ==
    LET key == NodeKey(index, height)
    IN  [cache |-> MapSet(c, key, value),
         batch |-> Append(b, [key |-> key, value |-> value])]

\* writeMetaData(batch): one more put on the batch
writeMetaDataBatch(b, r, d) ==
    Append(b, [key |-> MetaKey, value |-> MetaData(r, d)])

\* writeMetaData(): a direct db.put
writeMetaDataPut(s, r, d) == MapSet(s, MetaKey, MetaData(r, d))

\* batch.write(): every put of the batch, in order, all at once
RECURSIVE ApplyBatch(_, _)
ApplyBatch(s, b) ==
    IF b = <<>> THEN s
    ELSE ApplyBatch(MapSet(s, Head(b).key, Head(b).value), Tail(b))

-----------------------------------------------------------------------------
(* A JavaScript Map, which iterates in insertion order: a sequence of       *)
(* [key, value] records with distinct keys.                                 *)

OrdHas(m, k) == \E j \in 1..Len(m) : m[j].key = k

OrdGet(m, k) == m[CHOOSE j \in 1..Len(m) : m[j].key = k].value

OrdSet(m, k, v) ==
    IF OrdHas(m, k)
    THEN [j \in 1..Len(m) |-> IF m[j].key = k THEN [key |-> k, value |-> v] ELSE m[j]]
    ELSE Append(m, [key |-> k, value |-> v])

-----------------------------------------------------------------------------
(* getHashPath.  A loop is a recursion over the record of the variables    *)
(* the loop changes; `s` is the store, `d` is this.depth.                  *)

\* getHashPathStep that pushes the sibling first at every height
getHashPathStep_PairFirst(st, s) ==
    LET isRight == st.currentIndex % 2 = 1
        pairIndex == IF isRight THEN st.currentIndex - 1 ELSE st.currentIndex + 1
        pair == getNode(st.cache, s, pairIndex, st.height)
        current == getNode(pair.cache, s, st.currentIndex, st.height)
    IN  [cache |-> current.cache,
         path |-> Append(st.path, <<pair.value, current.value>>),
         currentIndex |-> st.currentIndex \div 2,
         height |-> st.height + 1]

\* one iteration of the for loop of getHashPath
getHashPathStep(st, s) ==
    LET isRight == st.currentIndex % 2 = 1
        pairIndex == IF isRight THEN st.currentIndex - 1 ELSE st.currentIndex + 1
        pair == getNode(st.cache, s, pairIndex, st.height)
        current == getNode(pair.cache, s, st.currentIndex, st.height)
    IN  [cache |-> current.cache,
         path |-> Append(st.path, IF isRight THEN <<pair.value, current.value>>
                                             ELSE <<current.value, pair.value>>),
         currentIndex |-> st.currentIndex \div 2,
         height |-> st.height + 1]

RECURSIVE getHashPathLoop(_, _, _)
getHashPathLoop(st, s, d) ==
    IF ~(st.height < d) THEN st
    ELSE getHashPathLoop(getHashPathStep(st, s), s, d)

\* getHashPath(index) of a tree with cache c and depth d over store s:
\* the path (path.data) and the cache it leaves
getHashPath(c, s, d, index) ==
    getHashPathLoop([cache |-> c, path |-> <<>>, currentIndex |-> index, height |-> 0],
                    s, d)

-----------------------------------------------------------------------------
(* updateElement, up to its `await batch.write()` *)

\* updateElementStep with the arguments of compress in the same order on both sides
updateElementStep_LeftAlways(st, s) ==
    LET isRight == st.currentIndex % 2 = 1
        pairIndex == IF isRight THEN st.currentIndex - 1 ELSE st.currentIndex + 1
        pair == getNode(st.cache, s, pairIndex, st.height)
        currentValue == Compress(st.currentValue, pair.value)
        currentIndex == st.currentIndex \div 2
        u == updateNode(pair.cache, st.batch, currentIndex, st.height + 1, currentValue)
    IN  [cache |-> u.cache, batch |-> u.batch,
         currentIndex |-> currentIndex, currentValue |-> currentValue,
         height |-> st.height + 1]

\* one iteration of the for loop of updateElement
updateElementStep(st, s) ==
    LET isRight == st.currentIndex % 2 = 1
        pairIndex == IF isRight THEN st.currentIndex - 1 ELSE st.currentIndex + 1
        pair == getNode(st.cache, s, pairIndex, st.height)
        currentValue == IF isRight THEN Compress(pair.value, st.currentValue)
                                   ELSE Compress(st.currentValue, pair.value)
        currentIndex == st.currentIndex \div 2
        u == updateNode(pair.cache, st.batch, currentIndex, st.height + 1, currentValue)
    IN  [cache |-> u.cache, batch |-> u.batch,
         currentIndex |-> currentIndex, currentValue |-> currentValue,
         height |-> st.height + 1]

RECURSIVE updateElementLoop(_, _, _)
updateElementLoop(st, s, d) ==
    IF ~(st.height < d) THEN st
    ELSE updateElementLoop(updateElementStep(st, s), s, d)

\* updateElement that folds the digest the leaf held into the new leaf digest
updateElement_FoldsOldLeaf(c, s, d, index, value) ==
    LET old == getNode(c, s, index, 0)
        leafValue == Compress(old.value, Hash(value))
        leaf == updateNode(old.cache, <<>>, index, 0, leafValue)
        l == updateElementLoop([cache |-> leaf.cache, batch |-> leaf.batch,
                                currentIndex |-> index, currentValue |-> leafValue,
                                height |-> 0], s, d)
    IN  [cache |-> l.cache, root |-> l.currentValue,
         batch |-> writeMetaDataBatch(l.batch, l.currentValue, d)]

\* updateElement(index, value) up to batch.write(): the cache, this.root and the batch
updateElement(c, s, d, index, value) ==
    LET leaf == updateNode(c, <<>>, index, 0, Hash(value))
        l == updateElementLoop([cache |-> leaf.cache, batch |-> leaf.batch,
                                currentIndex |-> index, currentValue |-> Hash(value),
                                height |-> 0], s, d)
    IN  [cache |-> l.cache, root |-> l.currentValue,
         batch |-> writeMetaDataBatch(l.batch, l.currentValue, d)]

-----------------------------------------------------------------------------
(* updateElements, up to its `await batch.write()` *)

\* the key `${height}:${index}` of nodeUpdates
UpdateKey(height, index) == <<height, index>>

\* updateLeaves that keeps the first value given for an index
RECURSIVE updateLeaves_FirstWins(_, _)
updateLeaves_FirstWins(st, updates) ==
    IF updates = <<>> THEN st
    ELSE LET index == Head(updates)[1]
             leafValue == Hash(Head(updates)[2])
             u == updateNode(st.cache, st.batch, index, 0, leafValue)
         IN  IF OrdHas(st.nodeUpdates, UpdateKey(0, index))
             THEN updateLeaves_FirstWins(st, Tail(updates))
             ELSE updateLeaves_FirstWins(
                      [cache |-> u.cache, batch |-> u.batch,
                       nodeUpdates |-> OrdSet(st.nodeUpdates, UpdateKey(0, index),
                                              leafValue)],
                      Tail(updates))

\* "First, update all leaves"
RECURSIVE updateLeaves(_, _)
updateLeaves(st, updates) ==
    IF updates = <<>> THEN st
    ELSE LET index == Head(updates)[1]
             leafValue == Hash(Head(updates)[2])
             u == updateNode(st.cache, st.batch, index, 0, leafValue)
         IN  updateLeaves([cache |-> u.cache, batch |-> u.batch,
                           nodeUpdates |-> OrdSet(st.nodeUpdates, UpdateKey(0, index),
                                                  leafValue)],
                          Tail(updates))

\* the indices of the keys of nodeUpdates at `height`, in iteration order
RECURSIVE indicesAt(_, _)
indicesAt(nodeUpdates, height) ==
    IF nodeUpdates = <<>> THEN <<>>
    ELSE LET rest == indicesAt(Tail(nodeUpdates), height)
         IN  IF Head(nodeUpdates).key[1] = height
             THEN <<Head(nodeUpdates).key[2]>> \o rest
             ELSE rest

\* updateParent that takes the sibling as last committed to the store, without
\* the pending table and the cache
updateParent_CommittedSibling(st, s, nodeUpdates, height, index) ==
    LET parentIndex == index \div 2
        isRight == index % 2 = 1
        siblingIndex == IF isRight THEN index - 1 ELSE index + 1
        current == IF OrdHas(nodeUpdates, UpdateKey(height, index))
                   THEN [cache |-> st.cache,
                         value |-> OrdGet(nodeUpdates, UpdateKey(height, index))]
                   ELSE getNode(st.cache, s, index, height)
        sibling == getNode(EmptyMap, s, siblingIndex, height)
        parentValue == IF isRight THEN Compress(sibling.value, current.value)
                                  ELSE Compress(current.value, sibling.value)
        u == updateNode(current.cache, st.batch, parentIndex, height + 1, parentValue)
    IN  [cache |-> u.cache, batch |-> u.batch,
         currentLevelUpdates |-> OrdSet(st.currentLevelUpdates, parentIndex, parentValue)]

\* "Update each affected node's parent": the body of the loop over `indices`
updateParent(st, s, nodeUpdates, height, index) ==
    LET parentIndex == index \div 2
        isRight == index % 2 = 1
        siblingIndex == IF isRight THEN index - 1 ELSE index + 1
        current == IF OrdHas(nodeUpdates, UpdateKey(height, index))
                   THEN [cache |-> st.cache,
                         value |-> OrdGet(nodeUpdates, UpdateKey(height, index))]
                   ELSE getNode(st.cache, s, index, height)
        sibling == IF OrdHas(nodeUpdates, UpdateKey(height, siblingIndex))
                   THEN [cache |-> current.cache,
                         value |-> OrdGet(nodeUpdates, UpdateKey(height, siblingIndex))]
                   ELSE getNode(current.cache, s, siblingIndex, height)
        parentValue == IF isRight THEN Compress(sibling.value, current.value)
                                  ELSE Compress(current.value, sibling.value)
        u == updateNode(sibling.cache, st.batch, parentIndex, height + 1, parentValue)
    IN  [cache |-> u.cache, batch |-> u.batch,
         currentLevelUpdates |-> OrdSet(st.currentLevelUpdates, parentIndex, parentValue)]

RECURSIVE updateParents(_, _, _, _, _)
updateParents(st, s, nodeUpdates, height, indices) ==
    IF indices = <<>> THEN st
    ELSE updateParents(updateParent(st, s, nodeUpdates, height, Head(indices)),
                       s, nodeUpdates, height, Tail(indices))

\* addLevelUpdates that adds nothing to nodeUpdates
addLevelUpdates_Dropped(nodeUpdates, currentLevelUpdates, height) == nodeUpdates

\* "Add current level updates to nodeUpdates for next iteration"
RECURSIVE addLevelUpdates(_, _, _)
addLevelUpdates(nodeUpdates, currentLevelUpdates, height) ==
    IF currentLevelUpdates = <<>> THEN nodeUpdates
    ELSE addLevelUpdates(OrdSet(nodeUpdates,
                                UpdateKey(height + 1, Head(currentLevelUpdates).key),
                                Head(currentLevelUpdates).value),
                         Tail(currentLevelUpdates), height)

\* one iteration of the for loop over the heights
updateLevel(st, s) ==
    LET l == updateParents([cache |-> st.cache, batch |-> st.batch,
                            currentLevelUpdates |-> <<>>],
                           s, st.nodeUpdates, st.height,
                           indicesAt(st.nodeUpdates, st.height))
    IN  [cache |-> l.cache, batch |-> l.batch,
         nodeUpdates |-> addLevelUpdates(st.nodeUpdates, l.currentLevelUpdates,
                                         st.height),
         height |-> st.height + 1]

RECURSIVE updateLevels(_, _, _)
updateLevels(st, s, d) ==
    IF ~(st.height < d) THEN st
    ELSE updateLevels(updateLevel(st, s), s, d)

\* this.root = nodeUpdates.get(`${this.depth}:0`) || this.root
newRoot(nodeUpdates, d, r) ==
    IF OrdHas(nodeUpdates, UpdateKey(d, 0)) THEN OrdGet(nodeUpdates, UpdateKey(d, 0))
    ELSE r

\* updateElements without the early return on an empty list
updateElements_NoEarlyReturn(c, s, d, r, updates) ==
    LET leaves == updateLeaves([cache |-> c, batch |-> <<>>, nodeUpdates |-> <<>>],
                               updates)
        l == updateLevels([cache |-> leaves.cache, batch |-> leaves.batch,
                           nodeUpdates |-> leaves.nodeUpdates, height |-> 0],
                          s, d)
        nr == newRoot(l.nodeUpdates, d, r)
    IN  [cache |-> l.cache, root |-> nr,
         batch |-> writeMetaDataBatch(l.batch, nr, d),
         nodeUpdates |-> l.nodeUpdates, write |-> TRUE]

\* updateElements(updates) up to batch.write(): the cache, this.root, the batch,
\* the final nodeUpdates, and whether batch.write() is reached (`write`)
updateElements(c, s, d, r, updates) ==
    IF Len(updates) = 0
    THEN [cache |-> c, root |-> r, batch |-> <<>>, nodeUpdates |-> <<>>,
          write |-> FALSE]
    ELSE LET leaves == updateLeaves([cache |-> c, batch |-> <<>>, nodeUpdates |-> <<>>],
                                    updates)
             l == updateLevels([cache |-> leaves.cache, batch |-> leaves.batch,
                                nodeUpdates |-> leaves.nodeUpdates, height |-> 0],
                               s, d)
             nr == newRoot(l.nodeUpdates, d, r)
         IN  [cache |-> l.cache, root |-> nr,
              batch |-> writeMetaDataBatch(l.batch, nr, d),
              nodeUpdates |-> l.nodeUpdates, write |-> TRUE]

-----------------------------------------------------------------------------
(* Construction *)

\* `root` absent in the constructor's arguments
NoRoot == -1

\* constructor that accepts depth 0
constructor_DepthFromZero(d, r) ==
    IF ~(d >= 0 /\ d <= MAX_DEPTH)
    THEN [ok |-> FALSE, root |-> NoRoot]
    ELSE [ok |-> TRUE, root |-> IF r # NoRoot THEN r ELSE getEmptyNodeHash(d)]

\* constructor(db, name, depth, root?): throws, or sets this.root
constructor(d, r) ==
    IF ~(d >= 1 /\ d <= MAX_DEPTH)
    THEN [ok |-> FALSE, root |-> NoRoot]
    ELSE [ok |-> TRUE, root |-> IF r # NoRoot THEN r ELSE getEmptyNodeHash(d)]

-----------------------------------------------------------------------------
(* Inputs *)

Indices == 0..MaxIndex

Values == 0..MaxValue

\* index < 2^d, computed by halving (2^32 is not computed)
RECURSIVE InRange(_, _)
InRange(index, d) ==
    IF index = 0 THEN TRUE
    ELSE IF d = 0 THEN FALSE
    ELSE InRange(index \div 2, d - 1)

DepthArgs == 0..(MAX_DEPTH + 1)

\* the update lists: sequences of [index, value] pairs of length 0..MaxUpdates
UpdateLists == UNION {[1..n -> Indices \X Values] : n \in 0..MaxUpdates}

\* A store handed to MerkleTree.new is empty, or holds under the tree's name a
\* metadata record that this class cannot have written (a depth out of range).
ForeignStores ==
    {MapSet(EmptyMap, MetaKey, MetaData(Hash(ZeroLeaf), d)) : d \in {0, MAX_DEPTH + 1}}

\* the callers that make calls which interleave
Procs == 1..MaxCalls

\* a caller that has made no call (`raced` and `alone` are history: another
\* call was in flight during this one; the path the call returns if it runs
\* with no other call in flight)
Idle ==
    [op |-> "none", pc |-> "idle", wait |-> "none", index |-> 0, value |-> 0,
     currentIndex |-> 0, currentValue |-> 0, height |-> 0, batch |-> <<>>,
     path |-> <<>>, pairHash |-> 0, nodeIndex |-> 0, got |-> 0, miss |-> FALSE,
     returned |-> NoRoot, raced |-> FALSE, alone |-> <<>>]

\* the outcome of a call; `puts` is the number of puts it handed to the store
Returned(op, value, puts) ==
    [op |-> op, ok |-> TRUE, value |-> value, path |-> <<>>, error |-> "",
     puts |-> puts]

\* the outcome of a getHashPath call: the HashPath's data
ReturnedPath(path) ==
    [op |-> "getHashPath", ok |-> TRUE, value |-> NoRoot, path |-> path,
     error |-> "", puts |-> 0]

Threw(op, error, puts) ==
    [op |-> op, ok |-> FALSE, value |-> NoRoot, path |-> <<>>, error |-> error,
     puts |-> puts]

-----------------------------------------------------------------------------
(* The state machine: one caller, who makes one call after the other and    *)
(* keeps the tree that the last successful MerkleTree.new returned.         *)

Init ==
    /\ db \in {EmptyMap} \cup ForeignStores
    /\ depth = 0
    /\ root = 0
    /\ cache = EmptyMap
    /\ ret = Returned("none", 0, 0)
    /\ failures = 0
    /\ committed = NoRoot
    /\ calls = [p \in Procs |-> Idle]

\* MerkleTree.new(db, name, depthArg)
New(depthArg) ==
    /\ IF MetaKey \in DOMAIN db
       THEN LET meta == db[MetaKey]
                tree == constructor(MetaDepth(meta), MetaRoot(meta))
            IN  /\ db' = db
                /\ IF tree.ok
                   THEN /\ depth' = MetaDepth(meta)
                        /\ root' = tree.root
                        /\ cache' = EmptyMap
                        /\ ret' = Returned("new", tree.root, 0)
                   ELSE /\ UNCHANGED <<depth, root, cache>>
                        /\ ret' = Threw("new", "Bad depth", 0)
                /\ UNCHANGED committed
       ELSE LET tree == constructor(depthArg, NoRoot)
            IN  IF tree.ok
                THEN /\ depth' = depthArg
                     /\ root' = tree.root
                     /\ cache' = EmptyMap
                     /\ db' = writeMetaDataPut(db, tree.root, depthArg)
                     /\ ret' = Returned("new", tree.root, 1)
                     /\ committed' = tree.root
                ELSE /\ UNCHANGED <<db, depth, root, cache, committed>>
                     /\ ret' = Threw("new", "Bad depth", 0)
    /\ UNCHANGED <<failures, calls>>

\* getHashPath(index)
GetHashPath(index) ==
    /\ depth \in 1..MaxDepth
    /\ InRange(index, depth)
    /\ \E r \in {getHashPath(cache, db, depth, index)} :
           /\ cache' = r.cache
           /\ ret' = ReturnedPath(r.path)
    /\ UNCHANGED <<db, depth, root, failures, committed, calls>>

\* `await batch.write()` on batch b and the return that follows it: the write
\* resolves (written) and the update returns `value`, or it rejects, nothing of
\* the batch is applied and the update throws
BatchWrite(op, b, written, value) ==
    IF written
    THEN /\ db' = ApplyBatch(db, b)
         /\ ret' = Returned(op, value, Len(b))
         /\ committed' = value
         /\ UNCHANGED failures
    ELSE /\ failures < MaxFailures
         /\ failures' = failures + 1
         /\ db' = db
         /\ UNCHANGED committed
         /\ ret' = Threw(op, "write failed", Len(b))

\* updateElement that assigns this.root after batch.write() has resolved
UpdateElement_RootAfterWrite(index, value) ==
    /\ depth \in 1..MaxDepth
    /\ InRange(index, depth)
    /\ \E u \in {updateElement(cache, db, depth, index, value)} :
           /\ cache' = u.cache
           /\ \E written \in BOOLEAN :
                  /\ root' = IF written THEN u.root ELSE root
                  /\ BatchWrite("updateElement", u.batch, written, u.root)
    /\ UNCHANGED <<depth, calls>>

\* updateElement(index, value)
UpdateElement(index, value) ==
    /\ depth \in 1..MaxDepth
    /\ InRange(index, depth)
    /\ \E u \in {updateElement(cache, db, depth, index, value)} :
           /\ cache' = u.cache
           /\ root' = u.root
           /\ \E written \in BOOLEAN :
                  BatchWrite("updateElement", u.batch, written, u.root)
    /\ UNCHANGED <<depth, calls>>

\* updateElements(updates)
UpdateElements(updates) ==
    /\ depth \in 1..MaxDepth
    /\ \A j \in 1..Len(updates) : InRange(updates[j][1], depth)
    /\ \E u \in {updateElements(cache, db, depth, root, updates)} :
           /\ cache' = u.cache
           /\ root' = u.root
           /\ IF u.write
              THEN \E written \in BOOLEAN :
                       BatchWrite("updateElements", u.batch, written, u.root)
              ELSE /\ ret' = Returned("updateElements", u.root, 0)
                   /\ UNCHANGED <<db, failures, committed>>
    /\ UNCHANGED <<depth, calls>>

Next ==
    \/ \E depthArg \in DepthArgs : New(depthArg)
    \/ \E index \in Indices : GetHashPath(index)
    \/ \E index \in Indices, value \in Values : UpdateElement(index, value)
    \/ \E updates \in UpdateLists : UpdateElements(updates)

Spec == Init /\ [][Next]_vars

-----------------------------------------------------------------------------
(* Calls that interleave on one tree object.  An async method runs until   *)
(* an `await`, where the other calls run.  calls[p].pc names the await at  *)
(* which call p is suspended, calls[p].wait what it waits for:             *)
(*   "ready"    the awaited promise is resolved, the call can resume       *)
(*   "dbget"    the db.get of getNode is not served yet                    *)
(*   "got"      the db.get is served, its outcome is in `got`              *)
(*   "dbwrite"  batch.write() is not served yet                            *)

\* the call has started and has not returned
Active(c) == c.pc \notin {"idle", "done"}

\* pairIndex / siblingIndex of the node `index`
PairIndex(index) == IF index % 2 = 1 THEN index - 1 ELSE index + 1

\* getNode(index, height) up to its first await, in call c on cache cch: a
\* cache hit resolves with the cached value, a miss issues db.get
issueGetNode(c, cch, index, height, pc) ==
    LET key == NodeKey(index, height)
    IN  IF key \in DOMAIN cch
        THEN [c EXCEPT !.pc = pc, !.wait = "ready", !.nodeIndex = index,
                       !.height = height, !.got = cch[key], !.miss = FALSE]
        ELSE [c EXCEPT !.pc = pc, !.wait = "dbget", !.nodeIndex = index,
                       !.height = height, !.got = 0, !.miss = TRUE]

\* resumeGetNode that drops the other entries of the cache
resumeGetNode_Evicts(c, cch) ==
    IF c.miss THEN MapSet(EmptyMap, NodeKey(c.nodeIndex, c.height), c.got) ELSE cch

\* getNode after its db.get: this.cache.set(key, value) or
\* this.cache.set(key, empty); a cache hit had returned before
resumeGetNode(c, cch) ==
    IF c.miss THEN MapSet(cch, NodeKey(c.nodeIndex, c.height), c.got) ELSE cch

\* the calls when caller p starts call c: calls in flight together are marked
Started(p, c) ==
    [q \in Procs |->
        IF q = p THEN [c EXCEPT !.raced = \E r \in Procs : Active(calls[r])]
        ELSE IF Active(calls[q]) THEN [calls[q] EXCEPT !.raced = TRUE]
        ELSE calls[q]]

\* the tree objects on which the interleaved calls are made: a fresh tree of
\* each depth, and a tree of depth MaxDepth after updateElement(1, 1), as the
\* object that made the update or as one restored from the store
TreeObjects ==
    LET fresh(d) == [db |-> writeMetaDataPut(EmptyMap, getEmptyNodeHash(d), d),
                     depth |-> d, root |-> getEmptyNodeHash(d), cache |-> EmptyMap]
        u == updateElement(EmptyMap, fresh(MaxDepth).db, MaxDepth, 1, 1)
        updated == ApplyBatch(fresh(MaxDepth).db, u.batch)
    IN  {fresh(d) : d \in 1..MaxDepth}
            \cup {[db |-> updated, depth |-> MaxDepth, root |-> u.root, cache |-> c] :
                     c \in {u.cache, EmptyMap}}

InitConc ==
    \E t \in TreeObjects :
        /\ db = t.db
        /\ depth = t.depth
        /\ root = t.root
        /\ cache = t.cache
        /\ ret = Returned("none", 0, 0)
        /\ failures = 0
        /\ committed = t.root
        /\ calls = [p \in Procs |-> Idle]

\* the call getHashPath(index) by caller p, up to the first await
StartGetHashPath(p, index) ==
    /\ calls[p].pc = "idle"
    /\ InRange(index, depth)
    /\ calls' = Started(p, issueGetNode([Idle EXCEPT !.op = "getHashPath",
                                                     !.index = index,
                                                     !.currentIndex = index,
                                                     !.alone =
                                                         getHashPath(cache, db, depth,
                                                                     index).path],
                                        cache, PairIndex(index), 0, "pairHash"))
    /\ UNCHANGED <<db, depth, root, cache, ret, failures, committed>>

\* db.get(key) of the getNode that call p awaits is served by the store
DbGet(p) ==
    /\ calls[p].wait = "dbget"
    /\ LET key == NodeKey(calls[p].nodeIndex, calls[p].height)
           value == IF key \in DOMAIN db THEN db[key]
                    ELSE getEmptyNodeHash(calls[p].height)
       IN  calls' = [calls EXCEPT ![p].wait = "got", ![p].got = value]
    /\ UNCHANGED <<db, depth, root, cache, ret, failures, committed>>

\* pathPair that puts the sibling first at every height
pathPair_PairFirst(c) == <<c.pairHash, c.got>>

\* the pair getHashPath pushes when getNode(currentIndex, height) has returned
pathPair(c) ==
    IF c.currentIndex % 2 = 1 THEN <<c.pairHash, c.got>> ELSE <<c.got, c.pairHash>>

\* getHashPath resumes after `await this.getNode(...)` and runs to the next
\* await or to its return
ResumeGetHashPath(p) ==
    LET c == calls[p]
        cch == resumeGetNode(c, cache)
    IN  /\ c.op = "getHashPath"
        /\ c.wait \in {"ready", "got"}
        /\ cache' = cch
        /\ IF c.pc = "pairHash"
           THEN calls' = [calls EXCEPT ![p] =
                    issueGetNode([c EXCEPT !.pairHash = c.got], cch,
                                 c.currentIndex, c.height, "currentHash")]
           ELSE LET pushed == [c EXCEPT
                        !.path = Append(c.path, pathPair(c)),
                        !.currentIndex = c.currentIndex \div 2,
                        !.height = c.height + 1]
                IN  calls' = [calls EXCEPT ![p] =
                        IF pushed.height < depth
                        THEN issueGetNode(pushed, cch, PairIndex(pushed.currentIndex),
                                          pushed.height, "pairHash")
                        ELSE [pushed EXCEPT !.pc = "done", !.wait = "none",
                                            !.miss = FALSE]]
        /\ UNCHANGED <<db, depth, root, ret, failures, committed>>

\* the call updateElement(index, value) by caller p, up to the first await
\* (that of updateNode for the leaf)
StartUpdateElement(p, index, value) ==
    /\ calls[p].pc = "idle"
    /\ InRange(index, depth)
    /\ LET u == updateNode(cache, <<>>, index, 0, Hash(value))
       IN  /\ cache' = u.cache
           /\ calls' = Started(p, [Idle EXCEPT !.op = "updateElement", !.pc = "leaf",
                                               !.wait = "ready", !.index = index,
                                               !.value = value,
                                               !.currentIndex = index,
                                               !.currentValue = Hash(value),
                                               !.batch = u.batch])
    /\ UNCHANGED <<db, depth, root, ret, failures, committed>>

\* parentValue that compresses with the path's own node always on the left
parentValue_LeftAlways(c) == Compress(c.currentValue, c.got)

\* the digest updateElement computes when getNode(pairIndex, height) has
\* returned
parentValue(c) ==
    IF c.currentIndex % 2 = 1 THEN Compress(c.got, c.currentValue)
                              ELSE Compress(c.currentValue, c.got)

\* updateElement resumes after an await and runs to the next await or to its
\* return
ResumeUpdateElement(p) ==
    LET c == calls[p]
    IN  /\ c.op = "updateElement"
        /\ c.wait \in {"ready", "got"}
        /\ CASE c.pc \in {"leaf", "parent"} ->
                    IF c.height < depth
                    THEN /\ calls' = [calls EXCEPT ![p] =
                                issueGetNode(c, cache, PairIndex(c.currentIndex),
                                             c.height, "pairHash")]
                         /\ UNCHANGED <<root, cache>>
                    ELSE /\ root' = c.currentValue
                         /\ calls' = [calls EXCEPT ![p] = [c EXCEPT
                                !.pc = "meta",
                                !.batch = writeMetaDataBatch(c.batch, c.currentValue,
                                                             depth)]]
                         /\ UNCHANGED cache
             [] c.pc = "pairHash" ->
                    LET currentValue == parentValue(c)
                        currentIndex == c.currentIndex \div 2
                        u == updateNode(resumeGetNode(c, cache), c.batch, currentIndex,
                                        c.height + 1, currentValue)
                    IN  /\ cache' = u.cache
                        /\ calls' = [calls EXCEPT ![p] = [c EXCEPT
                               !.pc = "parent", !.wait = "ready", !.miss = FALSE,
                               !.currentValue = currentValue,
                               !.currentIndex = currentIndex,
                               !.height = c.height + 1, !.batch = u.batch]]
                        /\ UNCHANGED root
             [] c.pc = "meta" ->
                    /\ calls' = [calls EXCEPT ![p].pc = "write", ![p].wait = "dbwrite"]
                    /\ UNCHANGED <<root, cache>>
             [] c.pc = "write" ->
                    /\ calls' = [calls EXCEPT ![p].pc = "done", ![p].wait = "none",
                                              ![p].returned = root]
                    /\ UNCHANGED <<root, cache>>
        /\ UNCHANGED <<db, depth, ret, failures, committed>>

\* batch.write() of call p is served by the store: all its puts at once
DbWrite(p) ==
    /\ calls[p].wait = "dbwrite"
    /\ db' = ApplyBatch(db, calls[p].batch)
    /\ committed' = MetaRoot(db'[MetaKey])
    /\ calls' = [calls EXCEPT ![p].wait = "ready"]
    /\ UNCHANGED <<depth, root, cache, ret, failures>>

NextConc ==
    \/ \E p \in Procs, index \in Indices : StartGetHashPath(p, index)
    \/ \E p \in Procs, index \in Indices, value \in Values :
           StartUpdateElement(p, index, value)
    \/ \E p \in Procs : DbGet(p)
    \/ \E p \in Procs : ResumeGetHashPath(p)
    \/ \E p \in Procs : ResumeUpdateElement(p)
    \/ \E p \in Procs : DbWrite(p)

SpecConc == InitConc /\ [][NextConc]_vars

-----------------------------------------------------------------------------
(* A store whose reads can fail.  A db.get that rejects for another reason *)
(* than an absent key rejects all the same: the callers of db.get (lines   *)
(* 40 and 200-208) do not look at the error.                               *)

\* the node records of store s
NodeKeys(s) == (DOMAIN s) \ {MetaKey}

\* what db.get resolves on store s when the reads of the keys in `fails`
\* reject: the records of the other keys
Readable(s, fails) == [k \in (DOMAIN s) \ fails |-> s[k]]

\* the sets of node records whose reads reject during one call
ReadFaults(s) == {fails \in SUBSET NodeKeys(s) : Cardinality(fails) \in 1..MaxReadFaults}

\* MerkleTree.new(db, name, depthArg) when db.get of the metadata rejects:
\* `.catch(() => {})` resolves undefined and the else branch is taken
NewOnReadFault(depthArg) ==
    /\ failures < MaxFailures
    /\ failures' = failures + 1
    /\ LET tree == constructor(depthArg, NoRoot)
       IN  IF tree.ok
           THEN /\ depth' = depthArg
                /\ root' = tree.root
                /\ cache' = EmptyMap
                /\ db' = writeMetaDataPut(db, tree.root, depthArg)
                /\ ret' = Returned("new", tree.root, 1)
                /\ committed' = tree.root
           ELSE /\ UNCHANGED <<db, depth, root, cache, committed>>
                /\ ret' = Threw("new", "Bad depth", 0)
    /\ UNCHANGED calls

\* getHashPath(index) when the db.get of some node records rejects
GetHashPathOnReadFaults(index) ==
    /\ depth \in 1..MaxDepth
    /\ InRange(index, depth)
    /\ failures < MaxFailures
    /\ failures' = failures + 1
    /\ \E fails \in ReadFaults(db) :
           \E r \in {getHashPath(cache, Readable(db, fails), depth, index)} :
               /\ cache' = r.cache
               /\ ret' = ReturnedPath(r.path)
    /\ UNCHANGED <<db, depth, root, committed, calls>>

NextFault ==
    \/ \E depthArg \in DepthArgs : New(depthArg)
    \/ \E depthArg \in DepthArgs : NewOnReadFault(depthArg)
    \/ \E index \in Indices : GetHashPath(index)
    \/ \E index \in Indices : GetHashPathOnReadFaults(index)
    \/ \E index \in Indices, value \in Values : UpdateElement(index, value)
    \/ \E updates \in UpdateLists : UpdateElements(updates)

SpecFault == Init /\ [][NextFault]_vars

-----------------------------------------------------------------------------
(* Vocabulary of the properties *)

\* getRoot()
getRoot == root

\* a tree object exists and the calls are made on it
Live == depth \in 1..MaxDepth

\* the in-range leaf indices of a tree of depth d, among those the calls use
LeafIndices(d) == {i \in Indices : InRange(i, d)}

\* E[h] of the specification, computed upwards from E[0] = hash(64 zero bytes)
RECURSIVE EmptyHashFrom(_, _, _)
EmptyHashFrom(h, e, height) ==
    IF h = height THEN e ELSE EmptyHashFrom(h + 1, Compress(e, e), height)

EmptyHash(height) == EmptyHashFrom(0, Hash(ZeroLeaf), height)

\* 2^n
RECURSIVE Pow2(_)
Pow2(n) == IF n = 0 THEN 1 ELSE 2 * Pow2(n - 1)

\* the node record (h, j) of store s, E[h] when the store has none
StoredNode(s, h, j) ==
    IF NodeKey(j, h) \in DOMAIN s THEN s[NodeKey(j, h)] ELSE EmptyHash(h)

\* the digest a tree object with cache c over store s holds for node (h, j)
CurrentNode(c, s, h, j) ==
    IF NodeKey(j, h) \in DOMAIN c THEN c[NodeKey(j, h)] ELSE StoredNode(s, h, j)

\* the member of the pair at height h that lies on the path of leaf i
OwnMember(path, i, h) ==
    IF (i \div Pow2(h)) % 2 = 1 THEN path[h + 1][2] ELSE path[h + 1][1]

\* `path` replays from the leaf digest `leaf` of index i to the root r of a
\* tree of depth d
Replays(path, i, leaf, r, d) ==
    /\ Len(path) = d
    /\ OwnMember(path, i, 0) = leaf
    /\ \A h \in 0..(d - 2) :
           Compress(path[h + 1][1], path[h + 1][2]) = OwnMember(path, i, h + 1)
    /\ Compress(path[d][1], path[d][2]) = r

\* the store after batch.write() of the batch of a staged update u
Committed(s, u) == ApplyBatch(s, u.batch)

\* the update lists with pairwise distinct indices, all in range for depth d
DistinctLists(d) ==
    {l \in UpdateLists :
        /\ \A j \in 1..Len(l) : InRange(l[j][1], d)
        /\ \A j, k \in 1..Len(l) : j # k => l[j][1] # l[k][1]}

\* the orders in which the pairs of list l can be taken
Orders(l) ==
    {[j \in 1..Len(l) |-> l[f[j]]] :
        f \in {g \in [1..Len(l) -> 1..Len(l)] :
                  \A j, k \in 1..Len(l) : j # k => g[j] # g[k]}}

\* updateElement called on each pair of l in turn, every batch committed:
\* the cache, the store and this.root at the end
RECURSIVE Sequentially(_, _, _)
Sequentially(st, d, l) ==
    IF l = <<>> THEN st
    ELSE LET u == updateElement(st.cache, st.db, d, Head(l)[1], Head(l)[2])
         IN  Sequentially([cache |-> u.cache, db |-> Committed(st.db, u),
                           root |-> u.root], d, Tail(l))

-----------------------------------------------------------------------------
(* C1: after serially executed, successfully committed updates, for every  *)
(* in-range index i the path getHashPath(i) replays to getRoot(): it       *)
(* starts from the digest of leaf i, each pair compresses to the path's    *)
(* own member of the next pair, and the last pair compresses to the root.  *)
(* And right after updateElement(i, v) the path of i starts from hash(v)   *)
(* and replays to the root that updateElement returned.                    *)
C1_PathsReplayToRoot ==
    (Live /\ failures = 0) =>
        /\ \A i \in LeafIndices(depth) :
               Replays(getHashPath(cache, db, depth, i).path, i,
                       StoredNode(db, 0, i), getRoot, depth)
        /\ \A i \in LeafIndices(depth), v \in Values :
               LET u == updateElement(cache, db, depth, i, v)
               IN  Replays(getHashPath(u.cache, Committed(db, u), depth, i).path,
                           i, Hash(v), u.root, depth)

\* a tree of depth 2 with committed leaves in both halves, after an updateElement
C1_Witness ==
    /\ depth = 2
    /\ failures = 0
    /\ ret.op = "updateElement"
    /\ ret.ok
    /\ NodeKey(0, 0) \in DOMAIN db
    /\ NodeKey(2, 0) \in DOMAIN db
    /\ db[NodeKey(0, 0)] # EmptyHash(0)
    /\ db[NodeKey(2, 0)] # EmptyHash(0)

(* C2: from any tree state, for any update list with pairwise distinct,    *)
(* in-range indices, updateElements returns and persists the same root as  *)
(* updateElement applied to the same pairs one at a time, in every order.  *)
C2_BatchEqualsSequential ==
    Live =>
        \A l \in DistinctLists(depth) :
            LET u == updateElements(cache, db, depth, root, l)
                s == IF u.write THEN Committed(db, u) ELSE db
            IN  \A p \in Orders(l) :
                    LET q == Sequentially([cache |-> cache, db |-> db, root |-> root],
                                          depth, p)
                    IN  /\ u.root = q.root
                        /\ MetaRoot(s[MetaKey]) = MetaRoot(q.db[MetaKey])

\* a committed updateElements that wrote leaves in both halves of a depth 2 tree
C2_Witness ==
    /\ depth = 2
    /\ ret.op = "updateElements"
    /\ ret.ok
    /\ ret.puts = 7
    /\ NodeKey(1, 0) \in DOMAIN db
    /\ NodeKey(2, 0) \in DOMAIN db
    /\ db[NodeKey(1, 0)] # EmptyHash(0)
    /\ db[NodeKey(2, 0)] # EmptyHash(0)
    /\ MetaRoot(db[MetaKey]) = root

\* the step is a call of updateElement or updateElements on the tree
UpdateStep == Live /\ ret'.op \in {"updateElement", "updateElements"}

\* the height h of node key <<Name, "node", h, j>>
KeyHeight(k) == k[3]

(* C3: every update puts all of its node writes and the metadata record    *)
(* (new root, depth) into one batch: a step of an update either leaves the *)
(* store as it was, or the store then holds the metadata record of the new *)
(* root, every node digest the update wrote into the cache, and no other   *)
(* change; after a successful commit getRoot() is the persisted root.      *)
C3_OneAtomicBatch ==
    [][UpdateStep =>
          IF ret'.ok /\ ret'.puts > 0
          THEN /\ db'[MetaKey] = MetaData(getRoot', depth')
               /\ ret'.value = getRoot'
               /\ \A k \in DOMAIN cache' :
                      (k \notin DOMAIN cache \/ cache[k] # cache'[k]) =>
                          \/ k \in DOMAIN db' /\ db'[k] = cache'[k]
                          \/ /\ k \notin DOMAIN db'
                             /\ k \notin DOMAIN cache
                             /\ cache'[k] = EmptyHash(KeyHeight(k))
               /\ \A k \in (DOMAIN db') \ {MetaKey} :
                      (k \notin DOMAIN db \/ db[k] # db'[k]) =>
                          k \in DOMAIN cache' /\ cache'[k] = db'[k]
               /\ DOMAIN db \subseteq DOMAIN db'
          ELSE db' = db
      ]_vars

\* a committed update whose batch held three node writes and the metadata
C3_Witness ==
    /\ depth = 2
    /\ ret.op = "updateElement"
    /\ ret.ok
    /\ ret.puts = 4
    /\ db[MetaKey] = MetaData(root, 2)
    /\ NodeKey(0, 2) \in DOMAIN db
    /\ db[NodeKey(0, 2)] = root
    /\ root # EmptyHash(2)

\* the step is MerkleTree.new on a store that holds a metadata record
RestoreStep == ret'.op = "new" /\ MetaKey \in DOMAIN db

(* C4: after successfully committed updates, MerkleTree.new on the same    *)
(* store and name returns a tree whose root and depth are the persisted    *)
(* (root, depth), whatever depth argument is passed, and whose             *)
(* getHashPath(i) equals that of the original tree for every index i.      *)
C4_RestoreReproduces ==
    [][(RestoreStep /\ ret'.ok) =>
          /\ \A depthArg \in DepthArgs : New(depthArg)
          /\ getRoot' = MetaRoot(db[MetaKey])
          /\ depth' = MetaDepth(db[MetaKey])
          /\ ret'.value = MetaRoot(db[MetaKey])
          /\ db' = db
          /\ (Live /\ failures = 0) =>
                 \A i \in LeafIndices(depth) :
                     getHashPath(cache', db', depth', i).path
                         = getHashPath(cache, db, depth, i).path
      ]_vars

\* a tree restored from a store that holds committed leaves
C4_Witness ==
    /\ depth = 2
    /\ failures = 0
    /\ ret.op = "new"
    /\ ret.ok
    /\ ret.puts = 0
    /\ cache = EmptyMap
    /\ NodeKey(1, 0) \in DOMAIN db
    /\ db[NodeKey(1, 0)] # EmptyHash(0)
    /\ root # EmptyHash(2)

\* the step is MerkleTree.new on a store with no metadata record for the name
FreshStep == ret'.op = "new" /\ MetaKey \notin DOMAIN db

(* C5: for every depth d in [1, 32], MerkleTree.new on a store with no     *)
(* metadata record returns a tree of root E[d], E[0] = hash(64 zero bytes) *)
(* and E[h] = compress(E[h-1], E[h-1]), and the metadata record (E[d], d)  *)
(* is in the store when new returns.                                       *)
C5_FreshRootIsEmptyHash ==
    [][FreshStep =>
          \A d \in 1..MAX_DEPTH :
              New(d) => /\ ret'.ok
                        /\ ret'.value = EmptyHash(d)
                        /\ getRoot' = EmptyHash(d)
                        /\ depth' = d
                        /\ cache' = EmptyMap
                        /\ db' = MapSet(db, MetaKey, MetaData(EmptyHash(d), d))
      ]_vars

\* a fresh tree of the greatest depth
C5_Witness ==
    /\ depth = MAX_DEPTH
    /\ ret.op = "new"
    /\ ret.ok
    /\ ret.puts = 1
    /\ root = EmptyHash(MAX_DEPTH)
    /\ db = MapSet(EmptyMap, MetaKey, MetaData(EmptyHash(MAX_DEPTH), MAX_DEPTH))

(* C6: updateElement is idempotent: from any tree state, updateElement(i,  *)
(* v) called twice in a row, both batches committed, returns the same root *)
(* both times, and the node values (cache and store) and the persisted     *)
(* metadata after the second call are those after the first.               *)
C6_UpdateElementIdempotent ==
    Live =>
        \A i \in LeafIndices(depth), v \in Values :
            LET u1 == updateElement(cache, db, depth, i, v)
                db1 == Committed(db, u1)
                u2 == updateElement(u1.cache, db1, depth, i, v)
                db2 == Committed(db1, u2)
            IN  /\ u2.root = u1.root
                /\ u2.cache = u1.cache
                /\ db2 = db1
                /\ db2[MetaKey] = MetaData(u1.root, depth)

\* a tree after a committed updateElement that holds leaves 0 and 1, on which
\* the repeated call is made
C6_Witness ==
    /\ depth = 2
    /\ ret.op = "updateElement"
    /\ ret.ok
    /\ ret.value = root
    /\ StoredNode(db, 0, 0) # EmptyHash(0)
    /\ StoredNode(db, 0, 1) # EmptyHash(0)
    /\ \E i \in LeafIndices(depth), v \in Values :
           /\ updateElement(cache, db, depth, i, v).root = root
           /\ updateElement(cache, db, depth, i, v).cache = cache

(* C7: updateElements([]) returns the current root and leaves the          *)
(* in-memory root, the cache and the store unchanged: it hands no put to   *)
(* the store (no batch, no metadata write) and no commit is attempted.     *)
C7_EmptyUpdateIsNoOp ==
    [][/\ Live =>
              LET u == updateElements(cache, db, depth, root, <<>>)
              IN  /\ ~u.write
                  /\ u.batch = <<>>
                  /\ u.root = getRoot
                  /\ u.cache = cache
       /\ (ret'.op = "updateElements" /\ ret'.ok /\ UpdateElements(<<>>)) =>
              /\ ret'.value = getRoot
              /\ ret'.puts = 0
              /\ getRoot' = getRoot
              /\ cache' = cache
              /\ db' = db
              /\ failures' = failures
              /\ committed' = committed
      ]_vars

\* updateElements([]) has returned on a tree that holds a leaf
C7_Witness ==
    /\ depth = 2
    /\ ret.op = "updateElements"
    /\ ret.ok
    /\ ret.puts = 0
    /\ ret.value = root
    /\ root # EmptyHash(2)
    /\ cache # EmptyMap
    /\ StoredNode(db, 0, 1) # EmptyHash(0)

\* the pair of a hash path at height h for leaf i, from the digests the tree
\* object holds: node (h, floor(i / 2^h)) and its sibling, left one first
PairAt(c, s, i, h) ==
    LET j == i \div Pow2(h)
    IN  IF j % 2 = 1
        THEN <<CurrentNode(c, s, h, j - 1), CurrentNode(c, s, h, j)>>
        ELSE <<CurrentNode(c, s, h, j), CurrentNode(c, s, h, j + 1)>>

\* the store and the cache after updateElement(0, v0) on a fresh tree of depth 2
AfterFirstUpdate(v0) ==
    LET fresh == writeMetaDataPut(EmptyMap, getEmptyNodeHash(2), 2)
        u == updateElement(EmptyMap, fresh, 2, 0, v0)
    IN  [db |-> Committed(fresh, u), cache |-> u.cache]

(* C8: getHashPath(i) returns exactly depth pairs, leaf to root; the pair  *)
(* at height h holds the current digests of node (h, floor(i / 2^h)) and   *)
(* of its sibling, the path's own node on the right iff its index at that  *)
(* height is odd.  For depth 2 after updateElement(0, v0), with L the      *)
(* digest of the empty leaf: getHashPath(0) = [[hash(v0), L],              *)
(* [compress(hash(v0), L), compress(L, L)]] and getHashPath(3) = [[L, L],  *)
(* [compress(hash(v0), L), compress(L, L)]].                               *)
C8_HashPathPairs ==
    /\ Live =>
           \A i \in 0..(Pow2(depth) - 1) :
               LET path == getHashPath(cache, db, depth, i).path
               IN  /\ Len(path) = depth
                   /\ \A h \in 0..(depth - 1) : path[h + 1] = PairAt(cache, db, i, h)
    /\ \A v0 \in Values :
           (depth = 2 /\ db = AfterFirstUpdate(v0).db
                      /\ cache = AfterFirstUpdate(v0).cache) =>
               LET L == Hash(ZeroLeaf)
                   top == <<Compress(Hash(v0), L), Compress(L, L)>>
                   p0 == getHashPath(cache, db, depth, 0)
                   p3 == getHashPath(p0.cache, db, depth, 3)
               IN  /\ p0.path = << <<Hash(v0), L>>, top >>
                   /\ p3.path = << <<L, L>>, top >>

\* the depth-2 tree right after its first update, updateElement(0, 1)
C8_Witness ==
    /\ depth = 2
    /\ ret.op = "updateElement"
    /\ ret.ok
    /\ ret.puts = 4
    /\ ret.value = root
    /\ db = AfterFirstUpdate(1).db
    /\ cache = AfterFirstUpdate(1).cache
    /\ db[NodeKey(0, 0)] = Hash(1)

\* the in-memory root and cache are those the update (cache, db, depth, root)
\* -> (cache', root') staged before its commit
AttemptedValues ==
    \/ /\ ret'.op = "updateElement"
       /\ \E i \in LeafIndices(depth), v \in Values :
              LET u == updateElement(cache, db, depth, i, v)
              IN  getRoot' = u.root /\ cache' = u.cache
    \/ /\ ret'.op = "updateElements"
       /\ \E updates \in UpdateLists :
              /\ updates # <<>>
              /\ \A j \in 1..Len(updates) : InRange(updates[j][1], depth)
              /\ LET u == updateElements(cache, db, depth, root, updates)
                 IN  getRoot' = u.root /\ cache' = u.cache

(* C9: when the batch commit of an update fails, the failure is propagated *)
(* to the caller, the store is exactly as it was before the call, the tree *)
(* object's getRoot() and cache report the attempted update's values, and  *)
(* a tree restored from the store with MerkleTree.new reports the last     *)
(* successfully committed root.                                            *)
C9_FailedCommit ==
    [][(UpdateStep /\ ~ret'.ok) =>
          /\ ret'.error = "write failed"
          /\ ret'.puts > 0
          /\ db' = db
          /\ AttemptedValues
          /\ committed' = committed
          /\ constructor(MetaDepth(db'[MetaKey]), MetaRoot(db'[MetaKey]))
                 = [ok |-> TRUE, root |-> committed]
      ]_vars

\* an update threw: the object reports a root that the store does not hold
C9_Witness ==
    /\ depth = 2
    /\ ret.op \in {"updateElement", "updateElements"}
    /\ ~ret.ok
    /\ failures = 1
    /\ getRoot # MetaRoot(db[MetaKey])
    /\ MetaRoot(db[MetaKey]) = committed
    /\ committed # EmptyHash(2)
    /\ \E k \in DOMAIN cache : k \in DOMAIN db /\ cache[k] # db[k]

(* C10: constructing a tree with depth outside [1, 32] fails with an       *)
(* error: MerkleTree.new on a name with no metadata record and such a      *)
(* depth returns no tree and writes nothing to the store, and a restore    *)
(* whose persisted metadata holds a depth outside [1, 32] also fails.      *)
C10_BadDepthFails ==
    [][(ret'.op = "new") =>
          /\ MetaKey \notin DOMAIN db =>
                 /\ \A d \in DepthArgs \ (1..MAX_DEPTH) :
                        New(d) => /\ ~ret'.ok
                                  /\ ret'.error = "Bad depth"
                                  /\ ret'.puts = 0
                                  /\ db' = db
                                  /\ UNCHANGED <<depth, root, cache, committed>>
                 /\ ret'.ok => depth' \in 1..MAX_DEPTH
                 /\ ~ret'.ok => db' = db
          /\ (MetaKey \in DOMAIN db /\ MetaDepth(db[MetaKey]) \notin 1..MAX_DEPTH) =>
                 /\ ~ret'.ok
                 /\ ret'.error = "Bad depth"
                 /\ ret'.puts = 0
                 /\ db' = db
                 /\ UNCHANGED <<depth, root, cache, committed>>
      ]_vars

\* MerkleTree.new has thrown on a store without a metadata record
C10_Witness ==
    /\ ret.op = "new"
    /\ ~ret.ok
    /\ ret.error = "Bad depth"
    /\ ret.puts = 0
    /\ db = EmptyMap
    /\ depth = 0
    /\ committed = NoRoot

-----------------------------------------------------------------------------
(* Interleaved calls *)

\* every call made so far is a getHashPath
OnlyReads == \A p \in Procs : calls[p].op # "updateElement"

\* no call is in flight
Quiescent == \A p \in Procs : ~Active(calls[p])

\* the callers whose call is op
Callers(op) == {p \in Procs : calls[p].op = op}

\* the height h and the index j of node key <<Name, "node", h, j>>
KeyIndex(k) == k[4]

(* C11: with no update in flight, in any interleaving of getHashPath calls *)
(* on one tree object every call returns the path it returns when it runs  *)
(* alone, and the root, the store and the value of every cache entry       *)
(* already present are unchanged: reads only add cache entries.            *)
C11_ConcurrentReads ==
    [][OnlyReads' =>
          /\ getRoot' = getRoot
          /\ db' = db
          /\ \A k \in DOMAIN cache : k \in DOMAIN cache' /\ cache'[k] = cache[k]
          /\ \A k \in (DOMAIN cache') \ DOMAIN cache :
                 cache'[k] = StoredNode(db, KeyHeight(k), KeyIndex(k))
          /\ \A p \in Procs :
                 calls'[p].pc = "done" =>
                     /\ calls'[p].path = calls'[p].alone
                     /\ Len(calls'[p].path) = depth
      ]_vars

\* two getHashPath calls that were in flight together have returned, on a
\* restored tree that holds a leaf
C11_Witness ==
    /\ depth = 2
    /\ OnlyReads
    /\ \A p \in Procs : calls[p].pc = "done" /\ calls[p].raced
    /\ calls[1].index = 0
    /\ calls[2].index = 1
    /\ calls[1].path = calls[1].alone
    /\ calls[1].path[1] = <<EmptyHash(0), Hash(1)>>
    /\ NodeKey(1, 0) \in DOMAIN cache

(* C12: one update interleaved with getHashPath calls on the same object:  *)
(* once all of them have completed and the commit succeeded, every cache   *)
(* entry (h, i) equals the store's value for that node (E[h] if the store  *)
(* has none), so a later getHashPath(i) replays to getRoot().              *)
C12_CacheCoherent ==
    (Live /\ Cardinality(Callers("updateElement")) = 1 /\ Quiescent) =>
        /\ \A k \in DOMAIN cache :
               cache[k] = StoredNode(db, KeyHeight(k), KeyIndex(k))
        /\ \A i \in 0..(Pow2(depth) - 1) :
               Replays(getHashPath(cache, db, depth, i).path, i,
                       StoredNode(db, 0, i), getRoot, depth)

-----------------------------------------------------------------------------

\* the store alone describes a Merkle tree of depth d: every node above the
\* leaves is the compress of its two children, and the metadata root is the
\* node (d, 0)
SelfConsistent(s, d) ==
    /\ \A h \in 0..(d - 1) :
           \A j \in 0..(Pow2(d - h - 1) - 1) :
               StoredNode(s, h + 1, j)
                   = Compress(StoredNode(s, h, 2 * j), StoredNode(s, h, 2 * j + 1))
    /\ MetaRoot(s[MetaKey]) = StoredNode(s, d, 0)

(* C13: the persisted state is self-consistent after every successful      *)
(* commit, also one that follows a failed commit on the same object: read  *)
(* from the store alone, every node (h+1, j) is the compress of nodes      *)
(* (h, 2j) and (h, 2j+1) and the metadata root is node (depth, 0), so a    *)
(* tree restored from the store has hash paths that replay to its root.    *)
C13_StoreSelfConsistent ==
    Live =>
        /\ SelfConsistent(db, depth)
        /\ \A i \in 0..(Pow2(depth) - 1) :
               Replays(getHashPath(EmptyMap, db, depth, i).path, i,
                       StoredNode(db, 0, i), MetaRoot(db[MetaKey]), depth)

-----------------------------------------------------------------------------

(* C14: MerkleTree.new never overwrites an existing tree: whenever the     *)
(* store holds a metadata record for the name, new performs no store write *)
(* and returns a tree with the persisted root and depth, in every          *)
(* execution, also when the read of the metadata fails.                    *)
C14_NewNeverOverwrites ==
    [][(ret'.op = "new" /\ MetaKey \in DOMAIN db
                        /\ MetaDepth(db[MetaKey]) \in 1..MAX_DEPTH) =>
          /\ db' = db
          /\ ret'.ok
          /\ ret'.puts = 0
          /\ getRoot' = MetaRoot(db[MetaKey])
          /\ depth' = MetaDepth(db[MetaKey])
      ]_vars

\* new has put the metadata of an empty tree of depth 1 over that of a tree of
\* depth 2 whose leaf 1 is stored
C14_Witness ==
    /\ ret.op = "new"
    /\ ret.ok
    /\ ret.puts = 1
    /\ failures = 1
    /\ depth = 1
    /\ db[MetaKey] = MetaData(EmptyHash(1), 1)
    /\ getRoot = EmptyHash(1)
    /\ NodeKey(1, 0) \in DOMAIN db
    /\ db[NodeKey(1, 0)] = Hash(1)
    /\ NodeKey(0, 2) \in DOMAIN db
    /\ db[NodeKey(0, 2)] # EmptyHash(2)

\* the read faults of one getNode call: none, some records, or every record
NodeReadFaults == {{}, NodeKeys(db)} \cup ReadFaults(db)

(* C18: a node read never fails: getNode(index, height) returns the cached *)
(* value on a cache hit, else the store's value, and when the store read   *)
(* fails (key absent or any other read failure) it returns E[height] and   *)
(* caches that default; so a node never written by any update reads as     *)
(* E[height] in both a fresh and a restored tree.                          *)
C18_NodeReadNeverFails ==
    Live =>
        \A h \in 0..depth :
            \A j \in 0..(Pow2(depth - h) - 1) :
                LET key == NodeKey(j, h)
                IN  /\ \A fails \in NodeReadFaults :
                           LET r == getNode(cache, Readable(db, fails), j, h)
                               expected ==
                                   IF key \in DOMAIN cache THEN cache[key]
                                   ELSE IF key \in DOMAIN db /\ key \notin fails
                                        THEN db[key]
                                        ELSE EmptyHash(h)
                           IN  /\ r.value = expected
                               /\ r.cache = MapSet(cache, key, expected)
                    /\ (failures = 0 /\ key \notin DOMAIN db) =>
                           /\ getNode(cache, db, j, h).value = EmptyHash(h)
                           /\ getNode(EmptyMap, db, j, h).value = EmptyHash(h)

\* a getHashPath during which the read of a stored leaf failed has returned:
\* the cache holds E[0] for the leaf
C18_Witness ==
    /\ depth = 2
    /\ failures = 1
    /\ ret.op = "getHashPath"
    /\ getRoot = MetaRoot(db[MetaKey])
    /\ SelfConsistent(db, depth)
    /\ NodeKey(1, 0) \in DOMAIN db
    /\ db[NodeKey(1, 0)] # EmptyHash(0)
    /\ NodeKey(1, 0) \in DOMAIN cache
    /\ cache[NodeKey(1, 0)] = EmptyHash(0)
    /\ NodeKey(3, 0) \notin DOMAIN db

-----------------------------------------------------------------------------

\* the digest of node (h, j) computed from the leaf records of store s
RECURSIVE TreeNode(_, _, _)
TreeNode(s, h, j) ==
    IF h = 0 THEN StoredNode(s, 0, j)
    ELSE Compress(TreeNode(s, h - 1, 2 * j), TreeNode(s, h - 1, 2 * j + 1))

\* the root of the tree of depth d whose leaves are those of store s
LeafRoot(s, d) == TreeNode(s, d, 0)

\* two updateElement calls on distinct indices have both returned
TwoUpdatesDone ==
    /\ \A p \in Procs : calls[p].op = "updateElement" /\ calls[p].pc = "done"
    /\ \A p, q \in Procs : p # q => calls[p].index # calls[q].index

(* C15: two update calls on one tree object are not isolated.  Run one     *)
(* after the other, in either order, two updateElement calls on distinct   *)
(* indices commit the root of the tree that holds both leaves; the witness *)
(* is an interleaving of the two calls after which the committed root is   *)
(* another one: one call's change is lost from the root.                   *)
C15_SerialUpdatesKeepBoth ==
    (TwoUpdatesDone /\ \A p \in Procs : ~calls[p].raced) =>
        /\ MetaRoot(db[MetaKey]) = LeafRoot(db, depth)
        /\ getRoot = LeafRoot(db, depth)
        /\ \E p \in Procs : calls[p].returned = LeafRoot(db, depth)

\* the store after its leaf j has gone back to the empty leaf
WithoutLeaf(s, j) == MapSet(s, NodeKey(j, 0), EmptyHash(0))

\* updateElement(0, 1) and updateElement(1, 1) were in flight together on a
\* fresh tree of depth 2 and have returned: both leaves are stored, and the
\* committed root is that of the tree without leaf 1
C15_Witness ==
    /\ depth = 2
    /\ TwoUpdatesDone
    /\ \A p \in Procs : calls[p].raced /\ calls[p].value = 1
    /\ calls[1].index = 0
    /\ calls[2].index = 1
    /\ \A j \in 2..3 : NodeKey(j, 0) \notin DOMAIN db
    /\ db[NodeKey(0, 0)] = Hash(1)
    /\ db[NodeKey(1, 0)] = Hash(1)
    /\ MetaRoot(db[MetaKey]) # LeafRoot(db, depth)
    /\ MetaRoot(db[MetaKey]) = LeafRoot(WithoutLeaf(db, 1), depth)
    /\ getRoot = MetaRoot(db[MetaKey])

\* call p is a getHashPath that returns in this step
Returns(p) ==
    /\ calls[p].op = "getHashPath"
    /\ calls[p].pc # "done"
    /\ calls'[p].pc = "done"

(* C16: a getHashPath that runs while an update is in flight can return a  *)
(* staged digest.  A getHashPath on an object whose calls were never in    *)
(* flight together returns a path that replays to the persisted root; the  *)
(* witness is an interleaving with an update in flight in which the        *)
(* returned path holds a digest that is staged in the cache and not        *)
(* committed, and replays neither to the persisted root nor to any other.  *)
C16_SerialReadsReplay ==
    [][\A p \in Procs :
           (Returns(p) /\ \A q \in Procs : ~calls'[q].raced) =>
               Replays(calls'[p].path, calls[p].index,
                       StoredNode(db, 0, calls[p].index), MetaRoot(db[MetaKey]), depth)
      ]_vars

\* getHashPath(1) has returned while updateElement(0, 1) on the fresh tree of
\* depth 2 has not committed: its upper pair holds the staged node (1, 0),
\* which is not the compress of its lower pair
C16_Witness ==
    /\ depth = 2
    /\ calls[1].op = "getHashPath"
    /\ calls[1].pc = "done"
    /\ calls[1].index = 1
    /\ calls[2].op = "updateElement"
    /\ calls[2].index = 0
    /\ calls[2].value = 1
    /\ calls[2].pc \in {"parent", "meta", "write"}
    /\ calls[2].wait # "ready" \/ calls[2].pc # "write"
    /\ DOMAIN db = {MetaKey}
    /\ MetaRoot(db[MetaKey]) = EmptyHash(2)
    /\ LET path == calls[1].path
       IN  /\ path[2][1] = cache[NodeKey(0, 1)]
           /\ path[2][1] # StoredNode(db, 1, 0)
           /\ Compress(path[1][1], path[1][2]) # path[2][1]
           /\ ~Replays(path, 1, StoredNode(db, 0, 1), MetaRoot(db[MetaKey]), depth)

-----------------------------------------------------------------------------

\* the non-empty update lists whose indices are all in range for depth d
NonEmptyLists(d) ==
    {l \in UpdateLists : l # <<>> /\ \A j \in 1..Len(l) : InRange(l[j][1], d)}

(* C17: in updateElements, for every non-empty update list with indices in *)
(* [0, 2^depth) a pending value is recorded for node (depth, 0) and the    *)
(* new root is that value: the fallback to the prior root is not taken,    *)
(* and the committed root reflects every submitted change.                 *)
C17_RootIsPendingTop ==
    Live =>
        \A l \in NonEmptyLists(depth) :
            LET u == updateElements(cache, db, depth, root, l)
                top == UpdateKey(depth, 0)
            IN  /\ u.write
                /\ OrdHas(u.nodeUpdates, top)
                /\ u.root = OrdGet(u.nodeUpdates, top)
                /\ u.batch[Len(u.batch)]
                       = [key |-> MetaKey, value |-> MetaData(u.root, depth)]
                /\ failures = 0 => u.root = LeafRoot(Committed(db, u), depth)

\* updateElements on two leaves under different parents has committed a root
\* that holds both
C17_Witness ==
    /\ depth = 2
    /\ failures = 0
    /\ ret.op = "updateElements"
    /\ ret.ok
    /\ ret.puts = 7
    /\ ret.value = root
    /\ StoredNode(db, 0, 0) # EmptyHash(0)
    /\ StoredNode(db, 0, 2) # EmptyHash(0)
    /\ MetaRoot(db[MetaKey]) = LeafRoot(db, depth)
    /\ root # LeafRoot(WithoutLeaf(db, 0), depth)
    /\ root # LeafRoot(WithoutLeaf(db, 2), depth)

\* the number of puts batch b holds for key k
Puts(b, k) == Cardinality({n \in 1..Len(b) : b[n].key = k})

(* C19: in one updateElements call each affected ancestor is recomputed    *)
(* and staged once per height: for every node (h, j) with h >= 1 the call  *)
(* stages a write at most once, also when both of its children were        *)
(* touched by the call.                                                    *)
C19_AncestorStagedOnce ==
    Live =>
        \A l \in NonEmptyLists(depth) :
            LET u == updateElements(cache, db, depth, root, l)
            IN  \A h \in 1..depth :
                    \A j \in 0..(Pow2(depth - h) - 1) :
                        Puts(u.batch, NodeKey(j, h)) <= 1

\* updateElements([[0, 1], [1, 1]]) on a fresh tree of depth 1 has handed five
\* puts to the store: two leaves, node (1, 0) twice, the metadata
C19_Witness ==
    /\ depth = 1
    /\ ret.op = "updateElements"
    /\ ret.ok
    /\ ret.puts = 5
    /\ StoredNode(db, 0, 0) = Hash(1)
    /\ StoredNode(db, 0, 1) = Hash(1)
    /\ Puts(updateElements(EmptyMap,
                           writeMetaDataPut(EmptyMap, getEmptyNodeHash(1), 1), 1,
                           getEmptyNodeHash(1), << <<0, 1>>, <<1, 1>> >>).batch,
            NodeKey(0, 1)) = 2

\* the update lists of up to MaxUpdates + 1 pairs, in range for depth d, in
\* which an index occurs more than once
DuplicateLists(d) ==
    {l \in UNION {[1..n -> Indices \X Values] : n \in 2..(MaxUpdates + 1)} :
        /\ \A j \in 1..Len(l) : InRange(l[j][1], d)
        /\ \E j, k \in 1..Len(l) : j # k /\ l[j][1] = l[k][1]}

\* list l without the pairs whose index occurs again later in l
RECURSIVE KeepLast(_)
KeepLast(l) ==
    IF l = <<>> THEN <<>>
    ELSE IF \E k \in 2..Len(l) : l[k][1] = Head(l)[1]
         THEN KeepLast(Tail(l))
         ELSE <<Head(l)>> \o KeepLast(Tail(l))

(* C20: in updateElements duplicate indices overwrite: an update list in   *)
(* which an index occurs more than once yields the same root, node values  *)
(* and persisted state as the list that keeps only the last pair for each  *)
(* index.                                                                  *)
C20_DuplicatesOverwrite ==
    Live =>
        \A l \in DuplicateLists(depth) :
            LET u == updateElements(cache, db, depth, root, l)
                k == updateElements(cache, db, depth, root, KeepLast(l))
            IN  /\ u.root = k.root
                /\ u.cache = k.cache
                /\ Committed(db, u) = Committed(db, k)

\* updateElements([[1, 0], [1, 1]]) has committed on a tree of depth 2: leaf 1
\* holds the second value
C20_Witness ==
    /\ depth = 2
    /\ ret.op = "updateElements"
    /\ ret.ok
    /\ ret.puts = 5
    /\ StoredNode(db, 0, 1) = Hash(1)
    /\ \A j \in {0, 2, 3} : NodeKey(j, 0) \notin DOMAIN db
    /\ LET fresh == writeMetaDataPut(EmptyMap, getEmptyNodeHash(2), 2)
           u == updateElements(EmptyMap, fresh, 2, getEmptyNodeHash(2),
                               << <<1, 0>>, <<1, 1>> >>)
       IN  db = Committed(fresh, u) /\ root = u.root

====
